---------------------------- MODULE Spec2Model ----------------------------
(***************************************************************************)
(* A model of the I/O port dispatcher of                                   *)
(* kernel/lib/magenta/io_port_dispatcher.cpp: the packet queue with its    *)
(* producers (Queue), its competing consumers (Wait) and the teardown hook *)
(* (on_zero_handles); the observer set with Bind, Unbind and the           *)
(* cancellation path (CancelObserver); the packet helpers and the calls    *)
(* that create packets and ports; the destructor; and, on its own, the     *)
(* order in which the operations take and release their locks.             *)
(*                                                                         *)
(* A section of code that runs under AutoLock al(&lock_) is one action:    *)
(* nothing inside such a section blocks, so the sections are serialised by *)
(* the mutex and every interleaving of whole sections is an interleaving   *)
(* the code has.  Code between two sections is a separate action.          *)
(***************************************************************************)
EXTENDS Integers, Sequences, FiniteSets, TLC

(***************************************************************************)
(* Bounds of the model.                                                    *)
(***************************************************************************)
\* Packets handed to Queue in one run (by threads and by fired observers).
MaxPackets == 3
\* Calls of Wait in one run.
MaxWaits == 2
\* Observers created by Bind in one run.
MaxObservers == 2
\* Largest payload length and largest caller capacity tried on CopyToUser.
MaxLen == 4
\* Calls that create a packet or a port in one run.
MaxCreates == 2

Producers == {"p1", "p2"}
Consumers == {"c1", "c2"}
\* The threads that call Bind and Unbind.
Binder == "b1"
Binders == {Binder, "b2"}
Threads == Producers \cup Consumers \cup Binders

PacketIds == 1..MaxPackets
ObserverIds == 1..MaxObservers
\* Handles: those of Waitable refer to an object whose state tracker exists
\* and is_waitable(); "h0" refers to an object that cannot be waited on.
Waitable == {"h1"}
Handles == Waitable \cup {"h0"}
Keys == {"k1", "k2"}

\* Status codes (err.h).  NO_ERROR is the integer 0 and every ERR_ code is a
\* non-zero integer; the model keeps the names.
NO_ERROR == "NO_ERROR"
ERR_NOT_AVAILABLE == "ERR_NOT_AVAILABLE"
ERR_NOT_ENOUGH_BUFFER == "ERR_NOT_ENOUGH_BUFFER"
ERR_NO_MEMORY == "ERR_NO_MEMORY"
ERR_NOT_SUPPORTED == "ERR_NOT_SUPPORTED"
ERR_BAD_HANDLE == "ERR_BAD_HANDLE"
\* What event_wait_timeout(..., interruptable = true) returns when the wait is
\* aborted from outside.
ERR_INTERRUPTED == "ERR_INTERRUPTED"
\* What a failed registration with the signal source returns.
ERR_ADD_OBSERVER == "ERR_ADD_OBSERVER"

VARIABLES
    work,        \* the run's workload: how many packets, waits and observers
    packets,     \* packets_: the FIFO of queued packets
    no_clients,  \* no_clients_
    signaled,    \* event_: the auto-unsignalling event's flag
    pc,          \* where each thread is
    pkt,         \* per thread: the packet of its call (Queue: in, Wait: out)
    status,      \* per thread: the status of its call
    wake_count,  \* per producer: Queue's local wake_count
    nextPacket,  \* the next packet to be allocated
    nwaits,      \* calls of Wait so far
    pk_src,      \* per packet: who produced it: "-" (nobody yet), "user",
                 \* "observer"
    pk_obs,      \* per packet of an observer: the observer (else 0)
    pk_deleted,  \* per packet: how often IOP_Packet::Delete ran on it
    appended,    \* history: packets in the order push_back took them
    delivered,   \* history: packets in the order Wait popped them
    drained,     \* history: packets in the order FreePackets_NoLock freed them
    observers,   \* observers_: the port's list of observers
    registered,  \* the observers the signal source (state tracker) holds
    ob_state,    \* per observer: "-" (not created), NEW, UNBOUND, CANCELLED
    ob_handle,   \* per observer: get_handle()
    ob_key,      \* per observer: get_key()
    ob_deleted,  \* per observer: how often delete ran on it
    ob_erased,   \* per observer: how often observers_.erase ran on it
    erased_by,   \* per observer: the path whose erase removed it
    u_path,      \* per observer: how far an Unbind that found it has come
    c_path,      \* per observer: how far its cancellation path has come
    nextObs,     \* the next observer to be allocated
    observer,    \* Bind's and Unbind's local: the observer in hand
    cp,          \* a call of IOP_Packet::CopyToUser: its inputs and results
    mk,          \* the calls that create a packet or a port, and the heap
    dtor,        \* ~IOPortDispatcher: whether it ran, and what its two
                 \* assertions found
    lk           \* the locking protocol: who holds which lock, where each
                 \* thread is in its sequence of lock operations

qvars == <<packets, no_clients, signaled, pkt, wake_count, nextPacket, nwaits,
           pk_src, pk_obs, pk_deleted, appended, delivered, drained>>
ovars == <<observers, registered, ob_state, ob_handle, ob_key, ob_deleted,
           ob_erased, erased_by, u_path, c_path, nextObs, observer>>
\* What no operation on the living port touches.
fixed == <<work, cp, mk, dtor, lk>>
pvars == <<pc, status, qvars, ovars>>
vars == <<fixed, pvars>>

(***************************************************************************)
(* Helpers of the packet queue.                                            *)
(***************************************************************************)
\* The threads blocked in event_wait_timeout on event_ (its wait queue).
Waiters == {c \in Consumers : pc[c] = "w_blocked"}

\* A Queue that inserts at the head of the list.
push_back_AtHead(q, p) == <<p>> \o q

\* packets_.push_back(packet), line 118.
push_back(q, p) == Append(q, p)

\* A Wait that returns the head packet and leaves it queued.
pop_front_Keep(q) == q

\* packets_.pop_front() in Wait, line 139: the list that is left.
pop_front(q) == Tail(q)

\* A Queue that does not look at no_clients_.
QueueRejects_Never(flag) == FALSE

\* if (no_clients_), line 115: whether Queue refuses the packet.
QueueRejects(flag) == flag

\* A Queue that leaves a refused packet alone.
QueueDeletes_Never(st) == FALSE

\* if (status != NO_ERROR), line 123: whether Queue destroys the packet.
QueueDeletes(st) == st # NO_ERROR

\* A teardown that frees only the head of the list.
FreePackets_HeadOnly(q, freed) ==
    IF q = <<>>
    THEN [packets |-> q, freed |-> freed]
    ELSE [packets |-> Tail(q), freed |-> Append(freed, Head(q))]

\* The while loop of FreePackets_NoLock (lines 98-102): pops and deletes
\* until the list is empty; freed collects the packets in the order Delete
\* ran on them.
RECURSIVE FreePackets_NoLock(_, _)
FreePackets_NoLock(q, freed) ==
    IF q = <<>>
    THEN [packets |-> q, freed |-> freed]
    ELSE FreePackets_NoLock(Tail(q), Append(freed, Head(q)))

\* IOP_Packet::Delete on every packet of the sequence ps.
Deleted(del, ps) ==
    [p \in PacketIds |-> del[p] + Cardinality({i \in DOMAIN ps : ps[i] = p})]

\* event_signal_etc(&event_, false, status) on an auto-unsignalling event: a
\* signalled event stays as it is; otherwise one waiter is woken (and the
\* event stays unsignalled) or, with no waiter, the event becomes signalled.
\* The outcomes: the wake count returned, the thread woken, the flag.
event_signal_etc ==
    IF signaled \/ Waiters = {}
    THEN {[wake_count |-> 0, woken |-> {}, signaled |-> TRUE]}
    ELSE {[wake_count |-> 1, woken |-> {w}, signaled |-> FALSE] : w \in Waiters}

(***************************************************************************)
(* IOPortDispatcher::Queue                                                 *)
(***************************************************************************)
\* A thread enters Queue with a packet of its own (lines 110-112).
QueueCall(t) ==
    /\ pc[t] = "idle"
    /\ ~dtor.ran
    /\ nextPacket <= work.packets
    /\ pc' = [pc EXCEPT ![t] = "q_lock"]
    /\ pkt' = [pkt EXCEPT ![t] = nextPacket]
    /\ pk_src' = [pk_src EXCEPT ![nextPacket] = "user"]
    /\ UNCHANGED pk_obs
    /\ nextPacket' = nextPacket + 1
    /\ status' = [status EXCEPT ![t] = NO_ERROR]
    /\ wake_count' = [wake_count EXCEPT ![t] = 0]
    /\ UNCHANGED <<fixed, packets, no_clients, signaled, nwaits, pk_deleted,
                   appended, delivered, drained, ovars>>

\* The locked section of Queue (lines 113-121).
QueueLocked(t) ==
    /\ pc[t] = "q_lock"
    /\ IF QueueRejects(no_clients)
       THEN /\ status' = [status EXCEPT ![t] = ERR_NOT_AVAILABLE]
            /\ pc' = [pc EXCEPT ![t] = "q_unlocked"]
            /\ UNCHANGED <<packets, appended, signaled, wake_count>>
       ELSE /\ packets' = push_back(packets, pkt[t])
            /\ appended' = Append(appended, pkt[t])
            /\ \E r \in event_signal_etc :
                  /\ signaled' = r.signaled
                  /\ wake_count' = [wake_count EXCEPT ![t] = r.wake_count]
                  /\ pc' = [x \in Threads |->
                               IF x = t THEN "q_unlocked"
                               ELSE IF x \in r.woken THEN "w_check"
                               ELSE pc[x]]
            /\ UNCHANGED status
    /\ UNCHANGED <<fixed, no_clients, pkt, nextPacket, nwaits, pk_src, pk_obs, pk_deleted,
                   delivered, drained, ovars>>

\* The rest of Queue (lines 123-131): a refused packet is deleted and the
\* status returned; thread_yield() changes no state of the port.
QueueReturn(t) ==
    /\ pc[t] = "q_unlocked"
    /\ pk_deleted' = IF QueueDeletes(status[t])
                     THEN Deleted(pk_deleted, <<pkt[t]>>)
                     ELSE pk_deleted
    /\ pc' = [pc EXCEPT ![t] = "idle"]
    /\ UNCHANGED <<fixed, packets, no_clients, signaled, pkt, status, wake_count,
                   nextPacket, nwaits, pk_src, pk_obs, appended, delivered, drained, ovars>>

(***************************************************************************)
(* IOPortDispatcher::Wait                                                  *)
(***************************************************************************)
\* A thread enters Wait (line 134).
WaitCall(c) ==
    /\ pc[c] = "idle"
    /\ ~dtor.ran
    /\ nwaits < work.waits
    /\ nwaits' = nwaits + 1
    /\ pc' = [pc EXCEPT ![c] = "w_check"]
    /\ pkt' = [pkt EXCEPT ![c] = 0]
    /\ status' = [status EXCEPT ![c] = "-"]
    /\ UNCHANGED <<fixed, packets, no_clients, signaled, wake_count, nextPacket,
                   pk_src, pk_obs, pk_deleted, appended, delivered, drained, ovars>>

\* The locked section of the loop (lines 136-142).
WaitCheck(c) ==
    /\ pc[c] = "w_check"
    /\ IF packets # <<>>
       THEN /\ pkt' = [pkt EXCEPT ![c] = Head(packets)]
            /\ delivered' = Append(delivered, Head(packets))
            /\ packets' = pop_front(packets)
            /\ status' = [status EXCEPT ![c] = NO_ERROR]
            /\ pc' = [pc EXCEPT ![c] = "idle"]
       ELSE /\ pc' = [pc EXCEPT ![c] = "w_wait"]
            /\ UNCHANGED <<packets, delivered, pkt, status>>
    /\ UNCHANGED <<fixed, no_clients, signaled, wake_count, nextPacket, nwaits,
                   pk_src, pk_obs, pk_deleted, appended, drained, ovars>>

\* event_wait_timeout(&event_, INFINITE_TIME, true), line 143: a signalled
\* event lets the thread through and unsignals; otherwise the thread blocks.
WaitEvent(c) ==
    /\ pc[c] = "w_wait"
    /\ IF signaled
       THEN /\ signaled' = FALSE
            /\ pc' = [pc EXCEPT ![c] = "w_check"]
       ELSE /\ pc' = [pc EXCEPT ![c] = "w_blocked"]
            /\ UNCHANGED signaled
    /\ UNCHANGED <<fixed, packets, no_clients, pkt, status, wake_count, nextPacket,
                   nwaits, pk_src, pk_obs, pk_deleted, appended, delivered, drained, ovars>>

\* A Wait that goes round its loop again whatever the wait returned.
WaitReturns_Never(st) == FALSE

\* if (st != NO_ERROR) return st, lines 144-145: whether Wait returns what
\* event_wait_timeout returned.
WaitReturns(st) == st # NO_ERROR

\* The wait primitive reports an error to a blocked thread (the wait is
\* interruptable), and Wait returns it (lines 143-145).
WaitAbort(c) ==
    /\ pc[c] = "w_blocked"
    /\ LET st == ERR_INTERRUPTED
       IN  IF WaitReturns(st)
           THEN /\ status' = [status EXCEPT ![c] = st]
                /\ pc' = [pc EXCEPT ![c] = "idle"]
           ELSE /\ pc' = [pc EXCEPT ![c] = "w_check"]
                /\ UNCHANGED status
    /\ UNCHANGED <<fixed, packets, no_clients, signaled, pkt, wake_count, nextPacket,
                   nwaits, pk_src, pk_obs, pk_deleted, appended, delivered, drained, ovars>>

(***************************************************************************)
(* IOPortDispatcher::on_zero_handles, the teardown hook: invoked once.     *)
(***************************************************************************)
on_zero_handles ==
    /\ ~no_clients
    /\ no_clients' = TRUE
    /\ LET r == FreePackets_NoLock(packets, <<>>)
       IN  /\ packets' = r.packets
           /\ drained' = drained \o r.freed
           /\ pk_deleted' = Deleted(pk_deleted, r.freed)
    /\ UNCHANGED <<fixed, signaled, pc, pkt, status, wake_count, nextPacket, nwaits,
                   pk_src, pk_obs, appended, delivered, ovars>>

(***************************************************************************)
(* Helpers of the observer set.                                            *)
(***************************************************************************)
\* observers_.push_front(observer), line 164.
push_front(list, o) == <<o>> \o list

\* An erase that leaves the observer in the list.
erase_Nothing(list, o) == list

\* observers_.erase(*observer), lines 195 and 207.
erase(list, o) == SelectSeq(list, LAMBDA x : x # o)

\* A search that compares the handle alone.
find_if_HandleOnly(list, handle, key) ==
    LET hits == {i \in DOMAIN list : handle = ob_handle[list[i]]}
    IN  IF hits = {} THEN 0
        ELSE list[CHOOSE i \in hits : \A j \in hits : i <= j]

\* observers_.find_if(...), lines 182-184: the first observer of the list
\* whose handle and key both match, or 0 (nullptr).
find_if(list, handle, key) ==
    LET hits == {i \in DOMAIN list :
                    handle = ob_handle[list[i]] /\ key = ob_key[list[i]]}
    IN  IF hits = {} THEN 0
        ELSE list[CHOOSE i \in hits : \A j \in hits : i <= j]

\* A SetState that stores the new state whatever it finds.
SetState_Store(cur, new) == [prev |-> cur, state |-> new]

\* IOPortObserver::SetState: the atomic compare-and-set of the lifecycle
\* flag from NEW; it returns the state it found.
SetState(cur, new) ==
    [prev |-> cur, state |-> IF cur = "NEW" THEN new ELSE cur]

\* An Unbind that ignores what SetState found.
UnbindProceeds_Always(prev) == TRUE

\* if (observer->SetState(UNBOUND) != NEW) return NO_ERROR, lines 192-193:
\* whether Unbind goes on to erase and delete.
UnbindProceeds(prev) == prev = "NEW"

\* The locked section of CancelObserver (lines 205-208), run by path who.
CancelObserver_erase(o, who) ==
    /\ observers' = erase(observers, o)
    /\ ob_erased' = [ob_erased EXCEPT ![o] = @ + 1]
    /\ erased_by' = [erased_by EXCEPT ![o] = who]

\* delete observer, lines 200 and 210.
delete_observer(o) ==
    ob_deleted' = [ob_deleted EXCEPT ![o] = @ + 1]

\* An allocation check that always passes.
AllocFailed_Never(ac_ok) == FALSE

\* if (!ac.check()), lines 26, 71 and 158 (ac_ok: whether the allocation
\* the AllocChecker watched succeeded).
AllocFailed(ac_ok) == ~ac_ok

\* The threads of the run that call Bind and Unbind.
ActiveBinders == IF work.binders = 1 THEN {Binder} ELSE Binders

\* A handle table whose lock nobody takes.
HandleTableFree_Always(t) == TRUE

\* "This method is called under the handle table lock", lines 150 and 177:
\* the caller holds that lock for the length of the call, so a call of Bind
\* or Unbind starts only while no other thread is inside one.
HandleTableFree(t) == \A u \in Binders \ {t} : pc[u] = "idle"

(***************************************************************************)
(* IOPortDispatcher::Bind                                                  *)
(***************************************************************************)
\* Lines 149-165: the checks, the allocation (ac_ok: whether it succeeds)
\* and the locked insertion.
BindCall(t, handle, key, ac_ok) ==
    /\ nextObs <= work.observers
    /\ pc[t] = "idle"
    /\ t \in ActiveBinders
    /\ ~dtor.ran
    /\ HandleTableFree(t)
    /\ IF handle \notin Waitable
       THEN /\ status' = [status EXCEPT ![t] = ERR_NOT_SUPPORTED]
            /\ UNCHANGED <<pc, observers, ob_state, ob_handle, ob_key,
                           nextObs, observer>>
       ELSE IF AllocFailed(ac_ok)
       THEN /\ status' = [status EXCEPT ![t] = ERR_NO_MEMORY]
            /\ UNCHANGED <<pc, observers, ob_state, ob_handle, ob_key,
                           nextObs, observer>>
       ELSE /\ observer' = [observer EXCEPT ![t] = nextObs]
            /\ nextObs' = nextObs + 1
            /\ ob_state' = [ob_state EXCEPT ![nextObs] = "NEW"]
            /\ ob_handle' = [ob_handle EXCEPT ![nextObs] = handle]
            /\ ob_key' = [ob_key EXCEPT ![nextObs] = key]
            /\ observers' = push_front(observers, nextObs)
            /\ status' = [status EXCEPT ![t] = "-"]
            /\ pc' = [pc EXCEPT ![t] = "b_add"]
    /\ UNCHANGED <<fixed, qvars, registered, ob_deleted, ob_erased, erased_by,
                   u_path, c_path>>

\* A Bind that returns the failure without undoing anything.
BindFails_Never(result) == FALSE

\* if (result != NO_ERROR), line 168: whether Bind goes on to CancelObserver.
BindFails(result) == result # NO_ERROR

\* state_tracker->AddObserver(observer), lines 167-173 (ok: whether the
\* signal source accepts the registration).
BindAdd(t, ok) ==
    /\ pc[t] = "b_add"
    /\ LET result == IF ok THEN NO_ERROR ELSE ERR_ADD_OBSERVER
       IN  /\ registered' = IF ok THEN registered \cup {observer[t]}
                                   ELSE registered
           /\ status' = [status EXCEPT ![t] = result]
           /\ pc' = [pc EXCEPT ![t] = IF BindFails(result) THEN "b_cancel"
                                                           ELSE "idle"]
    /\ UNCHANGED <<fixed, qvars, observers, ob_state, ob_handle, ob_key, ob_deleted,
                   ob_erased, erased_by, u_path, c_path, nextObs, observer>>

\* CancelObserver(observer) called by Bind, line 169: its locked section.
BindCancelErase(t) ==
    /\ pc[t] = "b_cancel"
    /\ CancelObserver_erase(observer[t], "bind")
    /\ pc' = [pc EXCEPT ![t] = "b_delete"]
    /\ UNCHANGED <<fixed, qvars, status, registered, ob_state, ob_handle, ob_key,
                   ob_deleted, u_path, c_path, nextObs, observer>>

\* ... its delete, and Bind's return of the failure (lines 170, 210).
BindCancelDelete(t) ==
    /\ pc[t] = "b_delete"
    /\ delete_observer(observer[t])
    /\ pc' = [pc EXCEPT ![t] = "idle"]
    /\ UNCHANGED <<fixed, qvars, status, observers, registered, ob_state, ob_handle,
                   ob_key, ob_erased, erased_by, u_path, c_path, nextObs,
                   observer>>

(***************************************************************************)
(* IOPortDispatcher::Unbind                                                *)
(***************************************************************************)
\* The locked section of Unbind (lines 178-196).
UnbindLocked(t, handle, key) ==
    /\ work.observers > 0
    /\ pc[t] = "idle"
    /\ t \in ActiveBinders
    /\ ~dtor.ran
    /\ HandleTableFree(t)
    /\ LET o == find_if(observers, handle, key)
       IN  IF o = 0
           THEN /\ status' = [status EXCEPT ![t] = ERR_BAD_HANDLE]
                /\ UNCHANGED <<pc, observers, ob_state, ob_erased, erased_by,
                               u_path, observer>>
           ELSE LET r == SetState(ob_state[o], "UNBOUND")
                IN  /\ ob_state' = [ob_state EXCEPT ![o] = r.state]
                    /\ observer' = [observer EXCEPT ![t] = o]
                    /\ IF UnbindProceeds(r.prev)
                       THEN /\ observers' = erase(observers, o)
                            /\ ob_erased' = [ob_erased EXCEPT ![o] = @ + 1]
                            /\ erased_by' = [erased_by EXCEPT ![o] = "unbind"]
                            /\ u_path' = [u_path EXCEPT ![o] = "won"]
                            /\ status' = [status EXCEPT ![t] = "-"]
                            /\ pc' = [pc EXCEPT ![t] = "u_remove"]
                       ELSE /\ status' = [status EXCEPT ![t] = NO_ERROR]
                            /\ u_path' = [u_path EXCEPT ![o] = "lost"]
                            /\ UNCHANGED <<pc, observers, ob_erased, erased_by>>
    /\ UNCHANGED <<fixed, qvars, registered, ob_handle, ob_key, ob_deleted, c_path,
                   nextObs>>

\* An Unbind that leaves the registration with the signal source in place.
RemoveObserver_Nothing(reg, o) == reg

\* get_state_tracker()->RemoveObserver(observer), line 199: the observers
\* the signal source holds afterwards.
RemoveObserver(reg, o) == reg \ {o}

\* dispatcher->get_state_tracker()->RemoveObserver(observer), lines 198-199.
UnbindRemove(t) ==
    /\ pc[t] = "u_remove"
    /\ registered' = RemoveObserver(registered, observer[t])
    /\ pc' = [pc EXCEPT ![t] = "u_delete"]
    /\ UNCHANGED <<fixed, qvars, status, observers, ob_state, ob_handle, ob_key,
                   ob_deleted, ob_erased, erased_by, u_path, c_path, nextObs,
                   observer>>

\* delete observer; return NO_ERROR, lines 200-201.
UnbindDelete(t) ==
    /\ pc[t] = "u_delete"
    /\ delete_observer(observer[t])
    /\ u_path' = [u_path EXCEPT ![observer[t]] = "done"]
    /\ status' = [status EXCEPT ![t] = NO_ERROR]
    /\ pc' = [pc EXCEPT ![t] = "idle"]
    /\ UNCHANGED <<fixed, qvars, observers, registered, ob_state, ob_handle, ob_key,
                   ob_erased, erased_by, c_path, nextObs, observer>>

(***************************************************************************)
(* The automatic-cancellation path and the signal-driven packets: the      *)
(* signal source calls into an observer it holds.                          *)
(***************************************************************************)
\* The cancellation callback: the transition NEW -> CANCELLED; the winner is
\* dropped by the signal source and goes on to CancelObserver, the loser
\* does nothing.
OnCancel(o) ==
    /\ o \in registered
    /\ c_path[o] = "none"
    /\ LET r == SetState(ob_state[o], "CANCELLED")
       IN  IF r.prev = "NEW"
           THEN /\ ob_state' = [ob_state EXCEPT ![o] = r.state]
                /\ registered' = registered \ {o}
                /\ c_path' = [c_path EXCEPT ![o] = "won"]
           ELSE /\ c_path' = [c_path EXCEPT ![o] = "lost"]
                /\ UNCHANGED <<ob_state, registered>>
    /\ UNCHANGED <<fixed, pc, status, qvars, observers, ob_handle, ob_key, ob_deleted,
                   ob_erased, erased_by, u_path, nextObs, observer>>

\* CancelObserver(observer) on the cancellation path: its locked section.
CancelErase(o) ==
    /\ c_path[o] = "won"
    /\ CancelObserver_erase(o, "cancel")
    /\ c_path' = [c_path EXCEPT ![o] = "erased"]
    /\ UNCHANGED <<fixed, pc, status, qvars, registered, ob_state, ob_handle, ob_key,
                   ob_deleted, u_path, nextObs, observer>>

\* ... and its delete (line 210).
CancelDelete(o) ==
    /\ c_path[o] = "erased"
    /\ delete_observer(o)
    /\ c_path' = [c_path EXCEPT ![o] = "done"]
    /\ UNCHANGED <<fixed, pc, status, qvars, observers, registered, ob_state,
                   ob_handle, ob_key, ob_erased, erased_by, u_path, nextObs,
                   observer>>

\* A signal of the watched object fires: the signal source calls the
\* observer it holds, which queues a packet of its own on the port.  The
\* call runs Queue to its end: the locked section and the delete of a
\* refused packet.
SignalFire(o) ==
    /\ o \in registered
    /\ nextPacket <= work.packets
    /\ nextPacket' = nextPacket + 1
    /\ pk_src' = [pk_src EXCEPT ![nextPacket] = "observer"]
    /\ pk_obs' = [pk_obs EXCEPT ![nextPacket] = o]
    /\ IF QueueRejects(no_clients)
       THEN /\ pk_deleted' = IF QueueDeletes(ERR_NOT_AVAILABLE)
                             THEN Deleted(pk_deleted, <<nextPacket>>)
                             ELSE pk_deleted
            /\ UNCHANGED <<packets, appended, signaled, pc>>
       ELSE /\ packets' = push_back(packets, nextPacket)
            /\ appended' = Append(appended, nextPacket)
            /\ \E r \in event_signal_etc :
                  /\ signaled' = r.signaled
                  /\ pc' = [x \in Threads |->
                               IF x \in r.woken THEN "w_check" ELSE pc[x]]
            /\ UNCHANGED pk_deleted
    /\ UNCHANGED <<fixed, no_clients, pkt, status, wake_count, nwaits, delivered,
                   drained, ovars>>

(***************************************************************************)
(* IOP_Packet::CopyToUser                                                  *)
(***************************************************************************)
\* The conversion of a status to the bool a function declared bool returns:
\* an integer converts to true unless it is 0, and NO_ERROR is 0.
BoolOfStatus(st) == st # NO_ERROR

\* copy_to_user(data, payload, len) that got n of the len bytes across: the
\* destination afterwards and the status (a fault stops the copy).
copy_to_user(buf, len, n) ==
    [buf |-> [i \in DOMAIN buf |-> IF i <= n THEN 1 ELSE buf[i]],
     status |-> IF n = len THEN NO_ERROR ELSE "ERR_FAULT"]

\* Lines 58-64.  size is *size, buf the caller's buffer, n the bytes the
\* user copy gets across before it faults (n = data_size: no fault).
CopyToUser(data_size, size, buf, n) ==
    IF size < data_size
    THEN [ret |-> BoolOfStatus(ERR_NOT_ENOUGH_BUFFER), size |-> size, buf |-> buf]
    ELSE LET r == copy_to_user(buf, data_size, n)
         IN  [ret |-> r.status = NO_ERROR, size |-> data_size, buf |-> r.buf]

\* The calls tried: a packet of payload length data_size, a caller's buffer
\* of cap untouched bytes (0), *size = cap, and the user copy's reach n.
CopyCalls ==
    {[pc |-> "call", data_size |-> L, cap |-> c, n |-> n, size |-> c,
      buf |-> [i \in 1..c |-> 0], ret |-> FALSE, live |-> TRUE] :
        L \in 0..MaxLen, c \in 0..MaxLen, n \in 0..MaxLen}

\* No call of CopyToUser.
NoCopy ==
    [pc |-> "none", data_size |-> 0, cap |-> 0, n |-> 0, size |-> 0,
     buf |-> <<>>, ret |-> FALSE, live |-> TRUE]

\* One call of CopyToUser on the packet; it deletes nothing.
CopyToUserCall ==
    /\ cp.pc = "call"
    /\ LET r == CopyToUser(cp.data_size, cp.size, cp.buf, cp.n)
       IN  cp' = [cp EXCEPT !.pc = "done", !.ret = r.ret, !.size = r.size,
                            !.buf = r.buf]
    /\ UNCHANGED <<work, mk, dtor, lk, pvars>>

(***************************************************************************)
(* IOPortDispatcher::~IOPortDispatcher.  The port is reference counted: its *)
(* destructor runs when the last reference goes.                           *)
(***************************************************************************)
\* Observers that hold a raw pointer to the port, and so no reference.
ObserverRefs_None == {}

\* The observers that hold a reference to the port: each is constructed
\* with utils::RefPtr<IOPortDispatcher>(this), line 157, and keeps it until
\* it is deleted.
ObserverRefs == {o \in ObserverIds : ob_state[o] # "-" /\ ob_deleted[o] = 0}

\* The threads inside a call on the port: the caller's reference lasts as
\* long as the call.
CallRefs == {t \in Threads : pc[t] # "idle"}

\* No reference to the port is left: the last handle is closed (the hook
\* on_zero_handles has run), no live observer and no call holds one.
Unreferenced == no_clients /\ ObserverRefs = {} /\ CallRefs = {}

\* The destructor has not run.
NotDestroyed == [ran |-> FALSE, observers_empty |-> TRUE, packets_empty |-> TRUE]

\* Lines 86-96: the drain, and what the two DEBUG_ASSERTs evaluate to.
Destructor ==
    /\ ~dtor.ran
    /\ Unreferenced
    /\ LET r == FreePackets_NoLock(packets, <<>>)
       IN  /\ packets' = r.packets
           /\ drained' = drained \o r.freed
           /\ pk_deleted' = Deleted(pk_deleted, r.freed)
           /\ dtor' = [ran |-> TRUE,
                       observers_empty |-> observers = <<>>,
                       packets_empty |-> r.packets = <<>>]
    /\ UNCHANGED <<work, cp, mk, lk, no_clients, signaled, pc, pkt, status,
                   wake_count, nextPacket, nwaits, pk_src, pk_obs, appended,
                   delivered, ovars>>

(***************************************************************************)
(* The calls that create: IOP_Packet::Alloc, Make and MakeFromUser, and    *)
(* IOPortDispatcher::Create.  The heap is the set of allocations that were *)
(* made and not freed.                                                     *)
(***************************************************************************)
\* kDefaultIOPortRights, lines 20-21.
kDefaultIOPortRights ==
    {"MX_RIGHT_DUPLICATE", "MX_RIGHT_TRANSFER", "MX_RIGHT_READ", "MX_RIGHT_WRITE"}

\* IOP_Packet::Alloc(size), lines 23-29: nullptr (0) when the allocation
\* fails, else a fresh allocation, which joins the heap.
Alloc(heap, next, ac_ok) ==
    IF AllocFailed(ac_ok)
    THEN [pk |-> 0, heap |-> heap, next |-> next]
    ELSE [pk |-> next, heap |-> heap \cup {next}, next |-> next + 1]

\* IOP_Packet::Make(data, size), lines 31-37: the packet returned (0:
\* nullptr), the heap, and what the payload holds.
Make(heap, next, size, ac_ok) ==
    LET a == Alloc(heap, next, ac_ok)
    IN  IF a.pk = 0
        THEN [ret |-> 0, heap |-> a.heap, next |-> a.next, payload |-> "-"]
        ELSE [ret |-> a.pk, heap |-> a.heap, next |-> a.next,
              payload |-> "data"]

\* magenta_copy_from_user(data, header, size) that got n of the size bytes
\* across: its status.
magenta_copy_from_user(size, n) == IF n = size THEN NO_ERROR ELSE "ERR_FAULT"

\* IOP_Packet::MakeFromUser(data, size), lines 39-51.  After a failed copy
\* it returns nullptr; nothing on that path frees pk.
MakeFromUser(heap, next, size, ac_ok, n) ==
    LET a == Alloc(heap, next, ac_ok)
    IN  IF a.pk = 0
        THEN [ret |-> 0, heap |-> a.heap, next |-> a.next, payload |-> "-"]
        ELSE LET st == magenta_copy_from_user(size, n)
             IN  [ret |-> IF st = NO_ERROR THEN a.pk ELSE 0,
                  heap |-> a.heap, next |-> a.next,
                  payload |-> "MX_IO_PORT_PKT_TYPE_USER"]

\* IOPortDispatcher::Create(options, dispatcher, rights), lines 66-77, called
\* with *dispatcher = disp and *rights = rights: the status and the two out
\* parameters afterwards.
Create(disp, rights, ac_ok) ==
    IF AllocFailed(ac_ok)
    THEN [status |-> ERR_NO_MEMORY, dispatcher |-> disp, rights |-> rights]
    ELSE [status |-> NO_ERROR, dispatcher |-> "IOPortDispatcher",
          rights |-> kDefaultIOPortRights]

\* No creating call yet: an empty heap, out parameters the caller has not
\* set.
NoMake ==
    [calls |-> 0, kind |-> "-", size |-> 0, ac_ok |-> TRUE, n |-> 0,
     ret |-> 0, payload |-> "-", heap |-> {}, before |-> {}, next |-> 1,
     status |-> "-", dispatcher |-> "nullptr", rights |-> {}]

\* One call of Make, with a payload size and an allocation outcome.
MakeCall ==
    /\ mk.calls < work.creates
    /\ \E size \in 0..MaxLen, ac_ok \in BOOLEAN :
       LET r == Make(mk.heap, mk.next, size, ac_ok)
       IN  mk' = [mk EXCEPT !.calls = @ + 1, !.kind = "Make", !.size = size,
                            !.ac_ok = ac_ok, !.n = size, !.ret = r.ret,
                            !.payload = r.payload, !.before = mk.heap,
                            !.heap = r.heap, !.next = r.next]
    /\ UNCHANGED <<work, cp, dtor, lk, pvars>>

\* One call of MakeFromUser; the user copy gets n of the size bytes across.
MakeFromUserCall ==
    /\ mk.calls < work.creates
    /\ \E size \in 0..MaxLen, ac_ok \in BOOLEAN : \E n \in 0..size :
       LET r == MakeFromUser(mk.heap, mk.next, size, ac_ok, n)
       IN  mk' = [mk EXCEPT !.calls = @ + 1, !.kind = "MakeFromUser",
                            !.size = size, !.ac_ok = ac_ok, !.n = n,
                            !.ret = r.ret, !.payload = r.payload,
                            !.before = mk.heap, !.heap = r.heap,
                            !.next = r.next]
    /\ UNCHANGED <<work, cp, dtor, lk, pvars>>

\* One call of Create.
CreateCall ==
    /\ mk.calls < work.creates
    /\ \E ac_ok \in BOOLEAN :
       LET r == Create(mk.dispatcher, mk.rights, ac_ok)
       IN  mk' = [mk EXCEPT !.calls = @ + 1, !.kind = "Create", !.size = 0,
                            !.ac_ok = ac_ok, !.n = 0, !.ret = 0,
                            !.payload = "-", !.before = mk.heap,
                            !.status = r.status, !.dispatcher = r.dispatcher,
                            !.rights = r.rights]
    /\ UNCHANGED <<work, cp, dtor, lk, pvars>>

(***************************************************************************)
(* The locking protocol.  Each operation is reduced to the sequence of its *)
(* lock and event operations, in the order of the code; one thread runs    *)
(* each sequence, and an acquire waits until the lock is free.  The locks: *)
(* lock_, the port's mutex; the lock of the signal source (the watched     *)
(* object's state tracker), held while the signal source works on its      *)
(* observers; and the handle table lock the callers of Bind and Unbind     *)
(* hold.                                                                   *)
(***************************************************************************)
Locks == {"lock_", "tracker", "handle_table"}
LockThreads ==
    {"Queue", "Wait", "Bind", "Unbind", "Cancel", "Fire", "on_zero_handles"}

acq(l) == [op |-> "acq", lock |-> l]
rel(l) == [op |-> "rel", lock |-> l]
event_signal == [op |-> "signal", lock |-> "-"]
event_wait == [op |-> "wait", lock |-> "-"]

\* Queue, lines 113-121: AutoLock al(&lock_) and event_signal_etc inside.
QueueProgram == <<acq("lock_"), event_signal, rel("lock_")>>

\* Wait, lines 134-147: one turn of the loop that finds the queue empty,
\* the wait outside the locked block, and the turn that pops.
WaitProgram ==
    <<acq("lock_"), rel("lock_"), event_wait, acq("lock_"), rel("lock_")>>

\* Bind, lines 149-174, on the path that makes the most lock operations:
\* the insertion under lock_, AddObserver in the signal source, and
\* CancelObserver after a failure; all of it under the handle table lock.
BindProgram ==
    <<acq("handle_table"), acq("lock_"), rel("lock_"),
      acq("tracker"), rel("tracker"),
      acq("lock_"), rel("lock_"), rel("handle_table")>>

\* An Unbind that calls RemoveObserver inside its locked block.
UnbindProgram_RemoveLocked ==
    <<acq("handle_table"), acq("lock_"), acq("tracker"), rel("tracker"),
      rel("lock_"), rel("handle_table")>>

\* Unbind, lines 176-202: the locked block (lines 179-196), then
\* RemoveObserver in the signal source; under the handle table lock.
UnbindProgram ==
    <<acq("handle_table"), acq("lock_"), rel("lock_"),
      acq("tracker"), rel("tracker"), rel("handle_table")>>

\* The cancellation path: the signal source, inside its own lock, calls
\* the observer, which goes through CancelObserver (lines 204-208).
CancelProgram ==
    <<acq("tracker"), acq("lock_"), rel("lock_"), rel("tracker")>>

\* A signal fires: the signal source, inside its own lock, calls the
\* observer, which queues a packet (Queue, lines 113-121).
FireProgram ==
    <<acq("tracker"), acq("lock_"), event_signal, rel("lock_"), rel("tracker")>>

\* on_zero_handles, lines 104-108.
TeardownProgram == <<acq("lock_"), rel("lock_")>>

Program(t) ==
    CASE t = "Queue" -> QueueProgram
      [] t = "Wait" -> WaitProgram
      [] t = "Bind" -> BindProgram
      [] t = "Unbind" -> UnbindProgram
      [] t = "Cancel" -> CancelProgram
      [] t = "Fire" -> FireProgram
      [] t = "on_zero_handles" -> TeardownProgram

\* The operation thread t is at (op "end": it has returned).
Instr(t) ==
    IF lk.pc[t] <= Len(Program(t)) THEN Program(t)[lk.pc[t]]
    ELSE [op |-> "end", lock |-> "-"]

\* Every thread at its start, every lock free, event_ not signalled.
LockStart ==
    [pc |-> [t \in LockThreads |-> 1],
     holder |-> [l \in Locks |-> "none"],
     ev |-> FALSE]

\* mutex_acquire: the thread gets the lock once it is free.
Acquire(t) ==
    /\ Instr(t).op = "acq"
    /\ lk.holder[Instr(t).lock] = "none"
    /\ lk' = [lk EXCEPT !.holder[Instr(t).lock] = t, !.pc[t] = @ + 1]
    /\ UNCHANGED <<work, cp, mk, dtor, pvars>>

\* mutex_release.
Release(t) ==
    /\ Instr(t).op = "rel"
    /\ lk' = [lk EXCEPT !.holder[Instr(t).lock] = "none", !.pc[t] = @ + 1]
    /\ UNCHANGED <<work, cp, mk, dtor, pvars>>

\* event_signal_etc on event_: it never blocks.
EventSignal(t) ==
    /\ Instr(t).op = "signal"
    /\ lk' = [lk EXCEPT !.ev = TRUE, !.pc[t] = @ + 1]
    /\ UNCHANGED <<work, cp, mk, dtor, pvars>>

\* event_wait_timeout on event_: the thread stays until the event is
\* signalled, and unsignals it.
EventWait(t) ==
    /\ Instr(t).op = "wait"
    /\ lk.ev
    /\ lk' = [lk EXCEPT !.ev = FALSE, !.pc[t] = @ + 1]
    /\ UNCHANGED <<work, cp, mk, dtor, pvars>>

(***************************************************************************)
(* The specification.                                                      *)
(***************************************************************************)
\* The workloads of a run: the packet queue under producers and competing
\* consumers; the observer set under Bind, Unbind and cancellation; a small
\* run of everything at once, with the packet a fired observer queues; the
\* observer set under two threads that call Bind and Unbind; and the calls
\* that create packets and ports.
Workloads ==
    {[packets |-> MaxPackets, waits |-> MaxWaits, observers |-> 0,
      binders |-> 1, creates |-> 0],
     [packets |-> 0, waits |-> 0, observers |-> MaxObservers,
      binders |-> 1, creates |-> 0],
     [packets |-> 1, waits |-> 1, observers |-> 1,
      binders |-> 1, creates |-> 0],
     [packets |-> 0, waits |-> 0, observers |-> 2,
      binders |-> 2, creates |-> 0],
     [packets |-> 0, waits |-> 0, observers |-> 0,
      binders |-> 1, creates |-> MaxCreates]}

InitPort ==
    /\ packets = <<>>
    /\ no_clients = FALSE
    /\ signaled = FALSE
    /\ pc = [t \in Threads |-> "idle"]
    /\ pkt = [t \in Threads |-> 0]
    /\ status = [t \in Threads |-> "-"]
    /\ wake_count = [t \in Producers |-> 0]
    /\ nextPacket = 1
    /\ nwaits = 0
    /\ pk_src = [p \in PacketIds |-> "-"]
    /\ pk_obs = [p \in PacketIds |-> 0]
    /\ pk_deleted = [p \in PacketIds |-> 0]
    /\ appended = <<>>
    /\ delivered = <<>>
    /\ drained = <<>>
    /\ observers = <<>>
    /\ registered = {}
    /\ ob_state = [o \in ObserverIds |-> "-"]
    /\ ob_handle = [o \in ObserverIds |-> "-"]
    /\ ob_key = [o \in ObserverIds |-> "-"]
    /\ ob_deleted = [o \in ObserverIds |-> 0]
    /\ ob_erased = [o \in ObserverIds |-> 0]
    /\ erased_by = [o \in ObserverIds |-> "none"]
    /\ u_path = [o \in ObserverIds |-> "none"]
    /\ c_path = [o \in ObserverIds |-> "none"]
    /\ nextObs = 1
    /\ observer = [t \in Binders |-> 0]

Init ==
    /\ work \in Workloads
    /\ cp = NoCopy
    /\ mk = NoMake
    /\ dtor = NotDestroyed
    /\ lk = LockStart
    /\ InitPort

Next ==
    \/ \E t \in Producers : QueueCall(t)
    \/ \E t \in Producers : QueueLocked(t)
    \/ \E t \in Producers : QueueReturn(t)
    \/ \E c \in Consumers : WaitCall(c)
    \/ \E c \in Consumers : WaitCheck(c)
    \/ \E c \in Consumers : WaitEvent(c)
    \/ \E c \in Consumers : WaitAbort(c)
    \/ on_zero_handles
    \/ \E t \in Binders, h \in Handles, k \in Keys, ac_ok \in BOOLEAN :
          BindCall(t, h, k, ac_ok)
    \/ \E t \in Binders, ok \in BOOLEAN : BindAdd(t, ok)
    \/ \E t \in Binders : BindCancelErase(t)
    \/ \E t \in Binders : BindCancelDelete(t)
    \/ \E t \in Binders, h \in Handles, k \in Keys : UnbindLocked(t, h, k)
    \/ \E t \in Binders : UnbindRemove(t)
    \/ \E t \in Binders : UnbindDelete(t)
    \/ \E o \in ObserverIds : OnCancel(o)
    \/ \E o \in ObserverIds : CancelErase(o)
    \/ \E o \in ObserverIds : CancelDelete(o)
    \/ \E o \in ObserverIds : SignalFire(o)
    \/ MakeCall
    \/ MakeFromUserCall
    \/ CreateCall
    \/ Destructor

Spec == Init /\ [][Next]_vars

\* The packet helpers on their own: the port stays as constructed.
InitPacket ==
    /\ work = [packets |-> 0, waits |-> 0, observers |-> 0,
               binders |-> 1, creates |-> 0]
    /\ cp \in {c \in CopyCalls : c.n <= c.data_size}
    /\ mk = NoMake
    /\ dtor = NotDestroyed
    /\ lk = LockStart
    /\ InitPort

NextPacket ==
    \/ CopyToUserCall

SpecPacket == InitPacket /\ [][NextPacket]_vars

\* The locking protocol on its own.
InitLock ==
    /\ work = [packets |-> 0, waits |-> 0, observers |-> 0,
               binders |-> 1, creates |-> 0]
    /\ cp = NoCopy
    /\ mk = NoMake
    /\ dtor = NotDestroyed
    /\ lk = LockStart
    /\ InitPort

NextLock ==
    \/ \E t \in LockThreads : Acquire(t)
    \/ \E t \in LockThreads : Release(t)
    \/ \E t \in LockThreads : EventSignal(t)
    \/ \E t \in LockThreads : EventWait(t)

SpecLock == InitLock /\ [][NextLock]_vars


\* The code's own steps are scheduled fairly: a thread inside Queue, Wait,
\* Bind, Unbind or CancelObserver that can take its next step takes it.
\* Nothing obliges a caller to start a call, the last handle to be closed, a
\* signal to fire, a watched object to go away or a wait to be aborted.
Fairness ==
    /\ \A t \in Producers : WF_vars(QueueLocked(t)) /\ WF_vars(QueueReturn(t))
    /\ \A c \in Consumers : WF_vars(WaitCheck(c)) /\ WF_vars(WaitEvent(c))
    /\ \A t \in Binders :
          /\ WF_vars(\E ok \in BOOLEAN : BindAdd(t, ok))
          /\ WF_vars(BindCancelErase(t)) /\ WF_vars(BindCancelDelete(t))
          /\ WF_vars(UnbindRemove(t)) /\ WF_vars(UnbindDelete(t))
    /\ \A o \in ObserverIds : WF_vars(CancelErase(o)) /\ WF_vars(CancelDelete(o))

FairSpec == Spec /\ Fairness

(***************************************************************************)
(* The properties.                                                         *)
(***************************************************************************)
Range(f) == {f[i] : i \in DOMAIN f}
Count(f, x) == Cardinality({i \in DOMAIN f : f[i] = x})
IsPrefix(a, b) == Len(a) <= Len(b) /\ SubSeq(b, 1, Len(a)) = a
InWait(c) == pc[c] \in {"w_check", "w_wait", "w_blocked"}
InQueue(t) == pc[t] \in {"q_lock", "q_unlocked"}

\* C1: the packets Wait has returned, in the order of their pops, are a
\* prefix of the packets Queue has appended, in the order of their appends;
\* what was appended is what was delivered, then what teardown freed, then
\* what is still queued, so that Waits with no Queue in between return the
\* queued packets in the order they were queued.
C1_Fifo ==
    /\ IsPrefix(delivered, appended)
    /\ appended = delivered \o drained \o packets

\* Two producers have queued their packets against the order in which they
\* entered Queue, and both consumers have been handed a packet.
C1_Witness ==
    /\ Len(delivered) >= 2
    /\ delivered[1] > delivered[2]
    /\ \A c \in Consumers : pc[c] = "idle" /\ status[c] = NO_ERROR

\* C2: the locked section of a Queue call on a port whose teardown hook has
\* run sets the not-available status, leaves the queue as it is and wakes no
\* waiter (the event and every waiting thread stay as they are); on a port
\* whose hook has not run it keeps the success status and the queue grows by
\* exactly the caller's packet, at the tail.  The call returns that status.
C2_QueueAfterTeardown ==
    [][\A t \in Producers :
          /\ (pc[t] = "q_lock" /\ pc'[t] = "q_unlocked") =>
                IF no_clients
                THEN /\ status'[t] = ERR_NOT_AVAILABLE
                     /\ packets' = packets
                     /\ signaled' = signaled
                     /\ \A c \in Consumers : pc'[c] = pc[c]
                ELSE /\ status'[t] = NO_ERROR
                     /\ packets' = Append(packets, pkt[t])
          /\ (pc[t] = "q_unlocked" /\ pc'[t] = "idle") =>
                /\ status'[t] = status[t]
                /\ packets' = packets]_vars

\* After packets were queued, teardown has run and a later Queue call has
\* returned not-available while a consumer was blocked.
C2_Witness ==
    /\ no_clients
    /\ appended # <<>>
    /\ \E t \in Producers : pc[t] = "idle" /\ status[t] = ERR_NOT_AVAILABLE
    /\ \E c \in Consumers : pc[c] = "w_blocked"

\* C3: whenever the "no more clients" flag is set the packet queue is empty,
\* and no step clears the flag once it is set.
C3_NoClientsEmpty ==
    /\ [](no_clients => packets = <<>>)
    /\ [][no_clients => no_clients']_vars

\* Teardown has freed several queued packets while a Queue call that had
\* entered before was about to take the lock.
C3_Witness ==
    /\ no_clients
    /\ Len(drained) >= 2
    /\ \E t \in Producers : pc[t] = "q_lock"

Returned(p) ==
    /\ pk_src[p] # "-"
    /\ \A t \in Producers : pkt[t] = p => ~InQueue(t)

\* C6 as stated: a packet that Queue has refused with not-available is still
\* live when the call returns (the port has not destroyed it).
C6_RefusedPacketLive ==
    \A t \in Producers :
        (pc[t] = "idle" /\ status[t] = ERR_NOT_AVAILABLE) => pk_deleted[pkt[t]] = 0

\* C6 as amended: Queue itself destroys a packet it refuses.  When Queue has
\* returned not-available the packet was never in the queue and the port has
\* deleted it exactly once, so it is not live on return; and the port deletes
\* no packet twice.
C6_RefusedPacketDeleted ==
    /\ \A p \in PacketIds : pk_deleted[p] <= 1
    /\ \A t \in Producers :
          (pc[t] = "idle" /\ status[t] = ERR_NOT_AVAILABLE) =>
              /\ pk_deleted[pkt[t]] = 1
              /\ pkt[t] \notin Range(appended)
    /\ \A p \in PacketIds :
          (Returned(p) /\ p \notin Range(appended)) => pk_deleted[p] = 1

\* A Queue call on the torn-down port has returned not-available.
C6_Witness ==
    \E t \in Producers :
        /\ pc[t] = "idle"
        /\ status[t] = ERR_NOT_AVAILABLE
        /\ pk_deleted[pkt[t]] = 1
        /\ drained # <<>>

\* C9: every packet that Queue appended is at one position of the queue, or
\* was returned by one Wait, or was freed by teardown, and never two of
\* these; Wait returns only packets that Queue appended, and the packet a
\* consumer holds is one Wait delivered.
C9_PacketInOnePlace ==
    /\ \A p \in Range(appended) :
          Count(packets, p) + Count(delivered, p) + Count(drained, p) = 1
    /\ Range(delivered) \subseteq Range(appended)
    /\ Range(packets) \subseteq Range(appended)
    /\ \A p \in Range(delivered) : pk_deleted[p] = 0
    /\ \A c \in Consumers :
          (pc[c] = "idle" /\ status[c] = NO_ERROR) => pkt[c] \in Range(delivered)
    /\ \A c, d \in Consumers :
          (c # d /\ pc[c] = "idle" /\ pc[d] = "idle"
               /\ status[c] = NO_ERROR /\ status[d] = NO_ERROR) => pkt[c] # pkt[d]

\* One packet was delivered, teardown freed another, and a consumer holds
\* the delivered one.
C9_Witness ==
    /\ delivered # <<>>
    /\ drained # <<>>
    /\ \E c \in Consumers : pc[c] = "idle" /\ status[c] = NO_ERROR

\* C10: once the cancellation path of an observer has run to its end, the
\* observer is not in the port's list, is not held by the signal source and
\* has been deleted once, and no packet of that observer is appended to the
\* queue from then on; a cancellation that finds the observer already
\* claimed by an Unbind changes nothing of the port or the observer.
C10_AfterCancel ==
    /\ [](\A o \in ObserverIds :
            c_path[o] = "done" =>
                /\ o \notin Range(observers)
                /\ o \notin registered
                /\ ob_deleted[o] = 1)
    /\ [][\A o \in ObserverIds :
            /\ c_path[o] = "done" =>
                  \A i \in DOMAIN appended' :
                      i > Len(appended) => pk_obs'[appended'[i]] # o
            /\ (c_path[o] = "none" /\ c_path'[o] = "lost") =>
                  UNCHANGED <<observers, registered, ob_state, ob_deleted,
                              ob_erased, erased_by, packets, appended>>]_vars

\* An observer queued a packet when its signal fired, and then its
\* cancellation path ran to the end.
C10_Witness ==
    \E o \in ObserverIds :
        /\ c_path[o] = "done"
        /\ \E p \in Range(appended) : pk_obs[p] = o

\* The bytes of the caller's buffer that the copy has written.
Written(buf) == Cardinality({i \in DOMAIN buf : buf[i] = 1})

\* C5: CopyToUser on a packet of payload length L with a caller capacity c
\* reports success with exactly L bytes copied if and only if c >= L and the
\* user copy succeeds; for c < L it reports failure, writes nothing, leaves
\* the caller's size as it was and does not destroy the packet.
C5_CopyOutBounded ==
    cp.pc = "done" =>
        /\ (cp.ret /\ Written(cp.buf) = cp.data_size) <=>
              (cp.cap >= cp.data_size /\ cp.n = cp.data_size)
        /\ cp.cap < cp.data_size =>
              /\ ~cp.ret
              /\ Written(cp.buf) = 0
              /\ cp.size = cp.cap
              /\ cp.live

\* C7: a thread that is inside Wait once the port has no more clients
\* (blocked when the teardown hook ran, or calling afterwards) eventually
\* returns from Wait with an error status.
C7_WaitReturnsAfterTeardown ==
    \A c \in Consumers :
        [](no_clients /\ InWait(c) =>
              <>(pc[c] = "idle" /\ status[c] \notin {NO_ERROR, "-"}))

\* C8: no thread stays blocked in Wait for ever while the queue holds a
\* packet: time and again the thread is not blocked or the queue is empty.
C8_NoLostWakeup ==
    \A c \in Consumers : []<>~(pc[c] = "w_blocked" /\ packets # <<>>)

\* The list b is the list a with the one element o taken out, the rest in
\* the order it had.
IsWithout(b, a, o) ==
    \E i \in DOMAIN a :
        /\ a[i] = o
        /\ b = SubSeq(a, 1, i - 1) \o SubSeq(a, i + 1, Len(a))
        /\ o \notin Range(b)

\* C11: when AddObserver fails, Bind returns the status AddObserver gave,
\* and at its return the observer it had inserted is not in the port's list,
\* is not held by the signal source, never left NEW and has been erased once
\* and deleted once.  Bind's insertion puts the one new observer into the
\* list and its cleanup takes that one observer out again, every other
\* member staying where it was: Bind leaves the list as it would be had the
\* call not been made.
C11_BindFailureUndone ==
    /\ [](\A t \in Binders :
            (pc[t] = "idle" /\ status[t] = ERR_ADD_OBSERVER) =>
                /\ observer[t] \notin Range(observers)
                /\ observer[t] \notin registered
                /\ ob_state[observer[t]] = "NEW"
                /\ ob_erased[observer[t]] = 1
                /\ ob_deleted[observer[t]] = 1
                /\ erased_by[observer[t]] = "bind")
    /\ [][\A t \in Binders :
            /\ (pc[t] = "idle" /\ pc'[t] = "b_add") =>
                  IsWithout(observers, observers', observer'[t])
            /\ (pc[t] = "b_add" /\ status'[t] = ERR_ADD_OBSERVER) =>
                  pc'[t] = "b_cancel" /\ observers' = observers
            /\ (pc[t] = "b_cancel" /\ pc'[t] # "b_cancel") =>
                  /\ IsWithout(observers', observers, observer[t])
                  /\ pc'[t] = "b_delete"
            /\ (pc[t] = "b_delete" /\ pc'[t] # "b_delete") =>
                  /\ pc'[t] = "idle" /\ status'[t] = ERR_ADD_OBSERVER
                  /\ observers' = observers]_vars

\* A Bind whose registration failed has returned while an observer bound
\* before it is still in the list.
C11_Witness ==
    /\ pc[Binder] = "idle" /\ status[Binder] = ERR_ADD_OBSERVER
    /\ ob_deleted[observer[Binder]] = 1
    /\ observers # <<>>

\* C12: a call whose allocation fails reports it and changes nothing.  A
\* Bind on a waitable handle whose observer cannot be allocated returns
\* ERR_NO_MEMORY, and the step that returns it leaves the observer list, the
\* registrations with the signal source, every observer, the packet queue
\* and the no-clients flag as they were.  Make and MakeFromUser return no
\* packet and Create returns ERR_NO_MEMORY with its out parameters as the
\* caller had them; the heap holds what it held before, and the port is
\* untouched.
C12_AllocationFailure ==
    /\ [][\A t \in Binders :
            /\ (\E h \in Waitable, k \in Keys : BindCall(t, h, k, FALSE)) =>
                  status'[t] = ERR_NO_MEMORY
            /\ (status'[t] = ERR_NO_MEMORY /\ status[t] # ERR_NO_MEMORY) =>
                  UNCHANGED <<pc, observers, registered, ob_state, ob_handle,
                              ob_key, ob_deleted, ob_erased, nextObs, observer,
                              packets, no_clients, signaled, mk>>]_vars
    /\ [][(mk'.calls # mk.calls /\ ~mk'.ac_ok) =>
            /\ mk'.ret = 0
            /\ mk'.payload = "-"
            /\ mk'.heap = mk.heap
            /\ mk'.dispatcher = mk.dispatcher
            /\ mk'.rights = mk.rights
            /\ mk'.kind = "Create" => mk'.status = ERR_NO_MEMORY
            /\ UNCHANGED pvars]_vars

\* A Bind has returned ERR_NO_MEMORY while an earlier observer is bound and
\* registered with the signal source.
C12_Witness ==
    /\ pc[Binder] = "idle" /\ status[Binder] = ERR_NO_MEMORY
    /\ observers # <<>>
    /\ registered # {}

\* C15: a MakeFromUser whose allocation succeeded and whose copy from the
\* user buffer failed returns no packet, and the heap holds exactly the
\* allocations it held before the call.
C15_FailedCopyReleases ==
    (mk.kind = "MakeFromUser" /\ mk.ac_ok /\ mk.n < mk.size) =>
        /\ mk.ret = 0
        /\ mk.heap = mk.before

\* C13: a call Unbind(handle, key) returns ERR_BAD_HANDLE exactly when no
\* observer of the port's list has that handle and that key, one of the two
\* alone being no match; and a call that finds none leaves the list, every
\* observer, the registrations with the signal source, the packet queue and
\* the flag as they were.
C13_UnbindBadHandle ==
    [][\A t \in ActiveBinders, h \in Handles, k \in Keys :
          (pc[t] = "idle" /\ UnbindLocked(t, h, k)) =>
              LET none == ~\E i \in DOMAIN observers :
                              /\ ob_handle[observers[i]] = h
                              /\ ob_key[observers[i]] = k
              IN  /\ (status'[t] = ERR_BAD_HANDLE) <=> none
                  /\ none => UNCHANGED <<pc, observers, registered, ob_state,
                                         ob_deleted, ob_erased, observer,
                                         packets, no_clients, signaled>>]_vars

\* An Unbind has returned ERR_BAD_HANDLE while the list held observers of
\* both keys: the call named a handle none of them has.
C13_Witness ==
    /\ pc[Binder] = "idle" /\ status[Binder] = ERR_BAD_HANDLE
    /\ {ob_key[o] : o \in Range(observers)} = Keys

\* C14: a thread blocked in Wait leaves the wait either because a Queue woke
\* it, which appends a packet in the same step, or because the wait
\* primitive reported an error.  In the second case Wait returns at once
\* with that error: the thread is out of the call in that very step, its
\* status is the error, it has been handed no packet, and the queue and the
\* record of delivered packets are as they were.
C14_WaitErrorReturned ==
    [][\A c \in Consumers :
          (pc[c] = "w_blocked" /\ pc'[c] # "w_blocked" /\ appended' = appended) =>
              /\ pc'[c] = "idle"
              /\ status'[c] = ERR_INTERRUPTED
              /\ pkt'[c] = 0
              /\ packets' = packets
              /\ delivered' = delivered
              /\ signaled' = signaled]_vars

\* A Wait has returned the error of the wait primitive while a packet was
\* queued, and the packet is still queued.
C14_Witness ==
    \E c \in Consumers :
        /\ pc[c] = "idle" /\ status[c] = ERR_INTERRUPTED /\ pkt[c] = 0
        /\ packets # <<>>

\* The states an observer's lifecycle flag may pass to from a given state.
Successors(state) ==
    IF state = "-" THEN {"NEW"}
    ELSE IF state = "NEW" THEN {"UNBOUND", "CANCELLED"}
    ELSE {}

\* C16: the lifecycle flag of an observer moves from NEW to UNBOUND or from
\* NEW to CANCELLED and in no other way: an observer is created NEW, and
\* UNBOUND and CANCELLED are never left, whatever Unbind or the cancellation
\* callback attempt on them.  An observer that is in the port's list is NEW
\* unless the cancellation path has claimed it and has not yet erased it,
\* and then it is CANCELLED; an UNBOUND observer is in the list no more.
C16_LifecycleFlag ==
    /\ [][\A o \in ObserverIds :
            ob_state'[o] # ob_state[o] => ob_state'[o] \in Successors(ob_state[o])]_vars
    /\ [](\A o \in ObserverIds :
            /\ (o \in Range(observers) /\ c_path[o] # "won") => ob_state[o] = "NEW"
            /\ (o \in Range(observers) /\ c_path[o] = "won") => ob_state[o] = "CANCELLED"
            /\ ob_state[o] = "UNBOUND" => o \notin Range(observers))

\* An Unbind has found an observer that the cancellation had claimed and
\* that was still in the list, and has left it CANCELLED; another observer
\* is UNBOUND and its cancellation has been attempted and lost.
C16_Witness ==
    /\ \E o \in ObserverIds :
          /\ ob_state[o] = "CANCELLED" /\ u_path[o] = "lost"
          /\ o \in Range(observers)
    /\ \E o \in ObserverIds : ob_state[o] = "UNBOUND" /\ c_path[o] = "lost"

\* C18: the signal source never holds an observer that has been deleted.
\* Once an Unbind that won, or a cancellation that won, has run to its end,
\* and so whenever both paths have returned from a race on one observer, the
\* observer is in the port's list no more, is registered with the signal
\* source no more and has been deleted, once; the end state does not tell
\* which of the two won.
C18_SameEndState ==
    \A o \in ObserverIds :
        /\ ob_deleted[o] > 0 => o \notin registered
        /\ ((u_path[o] \in {"lost", "done"} /\ c_path[o] \in {"lost", "done"})
               \/ u_path[o] = "done" \/ c_path[o] = "done") =>
              /\ o \notin Range(observers)
              /\ o \notin registered
              /\ ob_deleted[o] = 1
              /\ ob_state[o] \in {"UNBOUND", "CANCELLED"}

\* Both orders of the race have run to their end in one run: on one
\* observer Unbind won and the cancellation lost, on another the
\* cancellation won and Unbind lost; both observers are gone.
C18_Witness ==
    /\ \E o \in ObserverIds :
          u_path[o] = "done" /\ c_path[o] = "lost" /\ ob_deleted[o] = 1
    /\ \E o \in ObserverIds :
          u_path[o] = "lost" /\ c_path[o] = "done" /\ ob_deleted[o] = 1
    /\ registered = {}

\* C19: the port's destructor runs only when no observer that was created
\* is still undeleted, and the two assertions of the destructor hold: the
\* observer list is empty when it runs and the packet queue is empty after
\* its drain.  Nothing of the port is left behind or entered afterwards.
C19_DestructorAssertions ==
    dtor.ran =>
        /\ dtor.observers_empty
        /\ dtor.packets_empty
        /\ \A o \in ObserverIds : ob_state[o] # "-" => ob_deleted[o] = 1
        /\ observers = <<>>
        /\ packets = <<>>
        /\ registered = {}

\* The destructor has run after observers were bound and went both ways:
\* one through Unbind, one through the cancellation path.
C19_Witness ==
    /\ dtor.ran
    /\ \E o \in ObserverIds : erased_by[o] = "unbind"
    /\ \E o \in ObserverIds : erased_by[o] = "cancel"

\* C20: from the insertion of the new observer by Bind up to the end of
\* AddObserver, and on the failure path up to the erase and the delete of
\* CancelObserver, nothing else erases or deletes that observer: when Bind
\* calls AddObserver and when it enters CancelObserver the observer is
\* still in the list, has been erased by nobody and is not deleted, it is
\* still NEW, and Bind's own delete is the first.
C20_BindObserverLive ==
    \A t \in Binders :
        /\ pc[t] \in {"b_add", "b_cancel"} =>
              /\ observer[t] \in Range(observers)
              /\ ob_erased[observer[t]] = 0
              /\ ob_deleted[observer[t]] = 0
              /\ ob_state[observer[t]] = "NEW"
              /\ observer[t] \notin registered
        /\ pc[t] = "b_delete" =>
              /\ erased_by[observer[t]] = "bind"
              /\ ob_erased[observer[t]] = 1
              /\ ob_deleted[observer[t]] = 0

\* Two threads are at work: one is inside Bind between the insertion and
\* AddObserver while the other has bound an observer of the same handle and
\* key before and has since made a call of Unbind that returned.
C20_Witness ==
    /\ pc[Binder] = "b_add"
    /\ \E o \in Range(observers) :
          /\ o # observer[Binder]
          /\ ob_handle[o] = ob_handle[observer[Binder]]
          /\ ob_key[o] = ob_key[observer[Binder]]
    /\ status["b2"] \in {NO_ERROR, ERR_BAD_HANDLE}
    /\ observer["b2"] # 0

\* The locks thread t holds.
Held(t) == {l \in Locks : lk.holder[l] = t}

\* The thread that holds the lock thread t is waiting to acquire ("none":
\* t is not waiting for a lock).
WaitsOn(t) ==
    IF t = "none" \/ Instr(t).op # "acq" THEN "none"
    ELSE lk.holder[Instr(t).lock]

\* Whether the chain of waiting that starts at thread t arrives at thread u
\* within n steps.
RECURSIVE Reaches(_, _, _)
Reaches(t, u, n) ==
    IF t = "none" \/ n = 0 THEN FALSE
    ELSE IF t = u THEN TRUE
    ELSE Reaches(WaitsOn(t), u, n - 1)

\* C17: no thread holds lock_ (or any lock) while it is blocked in, or
\* about to enter, the wait on event_; Bind and Unbind do not hold lock_
\* when they call into the signal source or while they are inside it; and,
\* with the cancellation path and the firing of a signal taking lock_ from
\* inside the signal source, no threads ever wait for locks in a circle:
\* every chain of "waits for the holder of" ends in a thread that can run.
C17_DeadlockFree ==
    /\ \A t \in LockThreads : Instr(t).op = "wait" => Held(t) = {}
    /\ \A t \in {"Bind", "Unbind"} :
          ((Instr(t).op = "acq" /\ Instr(t).lock = "tracker")
              \/ "tracker" \in Held(t)) => "lock_" \notin Held(t)
    /\ \A t \in LockThreads :
          ~Reaches(WaitsOn(t), t, Cardinality(Locks) + 1)
    /\ \A t \in LockThreads :
          (WaitsOn(t) # "none") => Instr(WaitsOn(t)).op # "wait"

\* The cancellation path is inside the signal source and waits for lock_,
\* which Queue holds; Unbind, under the handle table lock, waits for the
\* signal source, and Bind waits for the handle table lock; a consumer is
\* blocked on event_.
C17_Witness ==
    /\ lk.holder["tracker"] = "Cancel" /\ WaitsOn("Cancel") = "Queue"
    /\ WaitsOn("Unbind") = "Cancel"
    /\ WaitsOn("Bind") = "Unbind"
    /\ Instr("Wait").op = "wait"

====
